---- MODULE Spec2Model ----
(***************************************************************************)
(* The atropos module of MultiQC (multiqc/modules/atropos/atropos.py):     *)
(* MultiqcModule.__init__ and MultiqcModule.parse_atropos_logs as a state  *)
(* machine.  One step reads one line of the current log file (the outer    *)
(* scan, the fixed skip after an Adapter marker, or the nested histogram   *)
(* sub-scan), ends the file (finalization), opens the next file, or runs   *)
(* one of the reporting calls that close __init__.                         *)
(***************************************************************************)
EXTENDS Integers, Sequences, FiniteSets, TLC

(* Bounds of the explored inputs. *)
MaxFiles == 2
MaxLines == 5
MaxStatLines == 5
MaxHistLines == 12
MaxRowLines == 17

VARIABLES
    atropos_data,            \* self.atropos_data: sample name -> dict
    atropos_length_counts,   \* self.atropos_length_counts: adapter -> sample -> length -> count
    atropos_length_exp,      \* self.atropos_length_exp: adapter -> sample -> length -> expected
    atropos_found_adapters,  \* self.atropos_found_adapters: list
    data_sources,            \* what add_data_source has recorded: {<<file number, sample>>}
    report,                  \* the reporting calls made so far, in order
    pc,                      \* where the program is
    exc,                     \* the exception that left __init__, or None
    nfiles,                  \* files handed out by find_log_files so far
    f,                       \* the current file's metadata: f['s_name'], f['root']
    pos,                     \* lines read from fh so far (the file cursor)
    l,                       \* the line variable l
    s_name,                  \* local s_name
    paired,                  \* local paired
    skipped,                 \* next(fh) calls done after the Adapter marker
    adapter_seq,             \* local adapter_seq
    at_header,               \* local at_header
    in_hist,                 \* local in_hist
    opened,                  \* history: self.atropos_data as it was when fh was opened
    sample_ids               \* history: the names of the Sample ID lines the outer scan has
                             \* processed in this file, in order

vars == <<atropos_data, atropos_length_counts, atropos_length_exp,
          atropos_found_adapters, data_sources, report, pc, exc, nfiles, f,
          pos, l, s_name, paired, skipped, adapter_seq, at_header, in_hist,
          opened, sample_ids>>

-----------------------------------------------------------------------------
(* Python values *)

None == "None"

\* dict(): the empty mapping
EmptyDict == <<>>

\* d[k] = v
Put(d, k, v) == [x \in (DOMAIN d) \cup {k} |-> IF x = k THEN v ELSE d[x]]

\* k in d
Has(d, k) == k \in DOMAIN d

RECURSIVE Gcd(_, _)
Gcd(a, b) == IF b = 0 THEN a ELSE Gcd(b, a % b)

Abs(n) == IF n < 0 THEN -n ELSE n

\* a float, kept exact as a reduced fraction num/den with den > 0
Float(num, den) ==
    LET g == Gcd(Abs(num), Abs(den))
        s == IF den < 0 THEN -1 ELSE 1
    IN  [num |-> (s * num) \div g, den |-> (s * den) \div g]

-----------------------------------------------------------------------------
(* Text.  A captured group is a sequence of characters. *)

Digit == [c \in {"0", "1", "2", "3", "4", "5", "6", "7", "8", "9"} |->
            CASE c = "0" -> 0 [] c = "1" -> 1 [] c = "2" -> 2 [] c = "3" -> 3
              [] c = "4" -> 4 [] c = "5" -> 5 [] c = "6" -> 6 [] c = "7" -> 7
              [] c = "8" -> 8 [] c = "9" -> 9]

IsDigit(c) == c \in DOMAIN Digit

\* s.replace(',', '')
StripCommas(s) == SelectSeq(s, LAMBDA c : c # ",")

RECURSIVE DigitsValue(_)
DigitsValue(s) ==
    IF s = <<>> THEN 0
    ELSE 10 * DigitsValue(SubSeq(s, 1, Len(s) - 1)) + Digit[s[Len(s)]]

\* int(s) raises ValueError unless s is a non-empty run of digits
intOK(s) == s # <<>> /\ \A i \in 1..Len(s) : IsDigit(s[i])
int(s) == DigitsValue(s)

\* float(s) for s made of digits and dots: ValueError unless there is at
\* least one digit and at most one dot
Dots(s) == {i \in 1..Len(s) : s[i] = "."}
floatOK(s) ==
    /\ \E i \in 1..Len(s) : IsDigit(s[i])
    /\ \A i \in 1..Len(s) : IsDigit(s[i]) \/ s[i] = "."
    /\ Cardinality(Dots(s)) <= 1
RECURSIVE Pow10(_)
Pow10(n) == IF n = 0 THEN 1 ELSE 10 * Pow10(n - 1)
float(s) ==
    LET digits == SelectSeq(s, IsDigit)
        frac == IF Dots(s) = {} THEN 0
                ELSE Len(s) - (CHOOSE i \in Dots(s) : TRUE)
    IN  Float(DigitsValue(digits), Pow10(frac))

-----------------------------------------------------------------------------
(* Lines.  A line is described by what the code asks of it:                *)
(*   ver      'Atropos version' in l                                       *)
(*   prefix   the text l starts with, among those the code tests with      *)
(*            startswith; " " for leading white space (the row regex's ^\s+)*)
(*   paired   'Paired' in l                                                *)
(*   toks     l.split()                                                    *)
(*   phrase   the statistic label a scalar regex finds in l, "" for none;  *)
(*   cap      the group ([\d,]+) captured after that label                 *)
(*   adapter  re.match(r'.*Adapter \d', l)                                 *)
(*   row      re.search("^\s+(\d+)\s+([\d,]+)\s+([\d\.,]+)", l), with the  *)
(*            groups len, cnt, exp                                         *)
(***************************************************************************)

Text == [ver |-> FALSE, prefix |-> "", paired |-> FALSE, toks |-> <<"x">>,
         phrase |-> "", cap |-> <<>>, adapter |-> FALSE, row |-> FALSE,
         len |-> <<>>, cnt |-> <<>>, exp |-> <<>>]

VersionLine == [Text EXCEPT !.ver = TRUE, !.toks = <<"Atropos", "version:", "1.1.5">>]
FormatLine(isPaired) ==
    [Text EXCEPT !.prefix = "Input format: ", !.paired = isPaired,
                 !.toks = <<"Input", "format:",
                            IF isPaired THEN "Paired" ELSE "Single-end">>]
SampleLine(tok) ==
    [Text EXCEPT !.prefix = "Sample ID: ", !.toks = <<"Sample", "ID:", tok>>]
StatLine(phrase, cap) ==
    [Text EXCEPT !.phrase = phrase, !.cap = cap, !.toks = <<"stat", "n">>]
AdapterLine == [Text EXCEPT !.adapter = TRUE, !.toks = <<"Adapter", "1">>]
SequenceLine(seq) == [Text EXCEPT !.toks = <<seq, "regular">>]
BlankLine == [Text EXCEPT !.toks = <<>>]
OverviewLine ==
    [Text EXCEPT !.prefix = "Overview of removed sequences:",
                 !.toks = <<"Overview", "of">>]
SeparatorLine == [Text EXCEPT !.prefix = "---", !.toks = <<"---">>]
RowLine(len, cnt, exp) ==
    [Text EXCEPT !.prefix = " ", !.row = TRUE, !.len = len, !.cnt = cnt,
                 !.exp = exp, !.toks = <<"row", "n">>]
\* a histogram row written without leading white space: the row regex fails
FlushRowLine == [Text EXCEPT !.toks = <<"10", "500", "450.2">>]
OtherLine == Text

HasVersion(ln) == ln.ver
StartsWith(ln, p) == ln.prefix = p
ContainsPaired(ln) == ln.paired
Split(ln) == ln.toks
Match(phrase, ln) == ln.phrase = phrase
MatchAdapter(ln) == ln.adapter
MatchRow(ln) == ln.row

-----------------------------------------------------------------------------
(* parse_atropos_logs: the tables and the pure parts *)

\* the regexes table: key -> the label its regex looks for; every regex
\* captures ([\d,]+) after the label
regexes ==
    ("1.1.5_paired" :>
        [bp_processed     |-> "Total bp processed:",
         bp_written       |-> "Total bp written (filtered):",
         quality_trimmed  |-> "Quality-trimmed:",
         r_processed      |-> "Total read pairs processed:",
         r1_with_adapters |-> "Read 1 with adapter:",
         r2_with_adapters |-> "Read 2 with adapter:",
         r_written        |-> "Pairs written (passing filters):"])
    @@
    ("1.1.5_single" :>
        [bp_processed     |-> "Total bp processed:",
         bp_written       |-> "Total bp written (filtered):",
         quality_trimmed  |-> "Quality-trimmed:",
         r_processed      |-> "Total reads processed:",
         r_with_adapters  |-> "Reads with adapter:",
         r_written        |-> "Reads written (passing filters):"])

\* atropos_version is '1.1.5' on every path through the version check
atropos_version == "1.1.5"

\* (mutant) the single-end set whatever the mode
a_regex_typeSingle(mode) == atropos_version \o "_single"

\* a_regex_type = '%s_%s' % (atropos_version, paired)
a_regex_type(mode) == atropos_version \o "_" \o mode

\* the sample-name sanitizer of the host (BaseMultiqcModule.clean_s_name):
\* it strips a known file extension; the root is not used unless the host
\* is configured to prepend directories
clean_s_name(name, root) ==
    CASE name = "a.fq" -> "a"
      [] name = "in.fq" -> "in"
      [] OTHER -> name

\* the ignore filter of the host (BaseMultiqcModule.ignore_samples)
ignore_samples(data, ignored) ==
    [s \in (DOMAIN data) \ ignored |-> data[s]]

\* the mode after the input-format test of one line
ModeAfter(ln, mode) ==
    IF StartsWith(ln, "Input format: ") /\ ContainsPaired(ln)
    THEN "paired" ELSE mode

\* (mutant) the sanitizer applied to the fallback name too
SampleNameCleaned(ln, file) ==
    LET tok == Split(ln)[Len(Split(ln))]
    IN  clean_s_name(IF tok = "-" THEN file.s_name ELSE tok, file.root)

\* the name a Sample ID line gives the new record
SampleName(ln, file) ==
    LET tok == Split(ln)[Len(Split(ln))]
    IN  IF tok = "-" THEN file.s_name ELSE clean_s_name(tok, file.root)

\* (mutant) the version test without its s_name = None
NameAfterKept(ln, file, name) ==
    IF StartsWith(ln, "Sample ID: ") THEN SampleName(ln, file) ELSE name

\* s_name after the version test and the Sample ID test of one line
NameAfter(ln, file, name) ==
    IF StartsWith(ln, "Sample ID: ") THEN SampleName(ln, file)
    ELSE IF HasVersion(ln) THEN None
    ELSE name

\* (mutant) an existing record is kept instead of overwritten
DataAfterSampleIDKept(ln, file, data) ==
    IF StartsWith(ln, "Sample ID: ") /\ ~Has(data, SampleName(ln, file))
    THEN Put(data, SampleName(ln, file), EmptyDict)
    ELSE data

\* (mutant) self.atropos_data = dict() before the new record is made
DataAfterSampleIDFresh(ln, file, data) ==
    IF StartsWith(ln, "Sample ID: ")
    THEN Put(EmptyDict, SampleName(ln, file), EmptyDict)
    ELSE data

\* self.atropos_data after the Sample ID test of one line
DataAfterSampleID(ln, file, data) ==
    IF StartsWith(ln, "Sample ID: ")
    THEN Put(data, SampleName(ln, file), EmptyDict)
    ELSE data

\* the keys of the active regex set whose regex matches the line
Hits(ln, mode) ==
    {k \in DOMAIN regexes[a_regex_type(mode)] :
        Match(regexes[a_regex_type(mode)][k], ln)}

\* the record after the regex loop over one line (no capture is malformed)
Captured(d, ln, mode) ==
    [k \in (DOMAIN d) \cup Hits(ln, mode) |->
        IF k \in Hits(ln, mode) THEN int(StripCommas(ln.cap)) ELSE d[k]]

\* int() of a capture of the line raises ValueError
CaptureFails(ln, mode) ==
    Hits(ln, mode) # {} /\ ~intOK(StripCommas(ln.cap))

\* (mutant) the append left out
FoundAfterNever(found, seq) == found

\* (mutant) append without the membership test
FoundAfterAlways(found, seq) == Append(found, seq)

\* atropos_found_adapters after "if adapter_seq not in ...: append"
FoundAfter(found, seq) ==
    IF \E i \in 1..Len(found) : found[i] = seq THEN found ELSE Append(found, seq)

\* (mutant) an entry the pair already has is kept, rows and all
HistInitKept(hist, seq, name) ==
    IF Has(hist, seq) /\ Has(hist[seq], name)
    THEN hist
    ELSE Put(hist, seq, Put(IF Has(hist, seq) THEN hist[seq] ELSE EmptyDict,
                            name, EmptyDict))

\* a histogram mapping after the (adapter, sample) entry is initialised
HistInit(hist, seq, name) ==
    Put(hist, seq, Put(IF Has(hist, seq) THEN hist[seq] ELSE EmptyDict,
                       name, EmptyDict))

\* hist[seq][name][len] = v
HistPut(hist, seq, name, len, v) ==
    Put(hist, seq, Put(hist[seq], name, Put(hist[seq][name], len, v)))

\* (mutant) the separator test without the at_header test before it
InHistAfterNoHeader(ln, header, hist) ==
    IF ~hist /\ StartsWith(ln, "---") THEN TRUE ELSE hist

\* in_hist after one pass of the nested loop's if/elif chain
InHistAfter(ln, header, hist) ==
    IF ~hist /\ header /\ StartsWith(ln, "---") THEN TRUE ELSE hist

\* at_header after one pass of the nested loop's if/elif chain
AtHeaderAfter(ln, header, hist) ==
    IF ~hist /\ ~header /\ StartsWith(ln, "Overview of removed sequences:")
    THEN TRUE ELSE header

-----------------------------------------------------------------------------
(* parse_atropos_logs: finalization *)

\* line 195 raises KeyError
MissingRequired(d) == ~Has(d, "r_processed") \/ ~Has(d, "r_written")

\* (mutant) the loss added to the r_lost of an earlier pass
RLostAccumulated(d) ==
    (IF Has(d, "r_lost") THEN d["r_lost"] ELSE 0)
        + d["r_processed"] - d["r_written"]

\* (mutant) the operands exchanged
RLostSwapped(d) == d["r_written"] - d["r_processed"]

\* r_lost
RLost(d) == d["r_processed"] - d["r_written"]

\* which branch of lines 197-200 is taken
FirstBranch(d) == Has(d, "bp_processed") /\ Has(d, "bp_written")
SecondBranch(d) ==
    ~FirstBranch(d) /\ Has(d, "bp_processed") /\ Has(d, "bp_trimmed")

\* the division of line 198 or 200 raises ZeroDivisionError
DividesByZero(d) ==
    (FirstBranch(d) \/ SecondBranch(d)) /\ d["bp_processed"] = 0

Get(d, k, default) == IF Has(d, k) THEN d[k] ELSE default

\* percent_trimmed as lines 198 and 200 compute it
PercentTrimmed(d) ==
    IF FirstBranch(d)
    THEN Float(100 * (d["bp_processed"] - d["bp_written"]), d["bp_processed"])
    ELSE Float(100 * (Get(d, "bp_trimmed", 0) + Get(d, "quality_trimmed", 0)),
               d["bp_processed"])

\* one pass of the finalization loop over a record it does not fail on
Finalized(d) ==
    LET d1 == Put(d, "r_lost", RLost(d))
    IN  IF FirstBranch(d) \/ SecondBranch(d)
        THEN Put(d1, "percent_trimmed", PercentTrimmed(d))
        ELSE d1

\* the record on which the loop fails, as the exception leaves it
FailedOn(d) == IF MissingRequired(d) THEN d ELSE Put(d, "r_lost", RLost(d))

FailsOn(d) == MissingRequired(d) \/ DividesByZero(d)

\* the whole finalization loop when it fails on no record
FinalizeAll(data) == [s \in DOMAIN data |-> Finalized(data[s])]

\* the loop fails on record b after it has visited the records of done
\* (a dict is visited in no order the code controls)
FinalizePartly(data, b, done) ==
    [s \in DOMAIN data |->
        IF s \in done THEN Finalized(data[s])
        ELSE IF s = b THEN FailedOn(data[s])
        ELSE data[s]]

FinalizeError(d) == IF MissingRequired(d) THEN "KeyError" ELSE "ZeroDivisionError"

-----------------------------------------------------------------------------
(* The inputs *)

\* the metadata of the n-th file find_log_files yields
FileAt(n) == [s_name |-> IF n % 2 = 1 THEN "in.fq" ELSE "b", root |-> "r"]

\* config.sample_names_ignore, as ignore_samples reads it
IgnoreSets == {{}, {"a"}}

ReadsProcessed(cap) == StatLine("Total reads processed:", cap)
ReadsWritten(cap) == StatLine("Reads written (passing filters):", cap)
PairsProcessed(cap) == StatLine("Total read pairs processed:", cap)
PairsWritten(cap) == StatLine("Pairs written (passing filters):", cap)
BpProcessed(cap) == StatLine("Total bp processed:", cap)
BpWritten(cap) == StatLine("Total bp written (filtered):", cap)
QualityTrimmed(cap) == StatLine("Quality-trimmed:", cap)
ReadsWithAdapter(cap) == StatLine("Reads with adapter:", cap)
Read1WithAdapter(cap) == StatLine("Read 1 with adapter:", cap)
Read2WithAdapter(cap) == StatLine("Read 2 with adapter:", cap)

\* the lines of the logs of Spec
Lines ==
    {SampleLine("-"), SampleLine("a"), SampleLine("a.fq"),
     ReadsProcessed(<<"1", ",", "0", "0", "0">>), ReadsProcessed(<<",">>),
     ReadsWritten(<<"7">>), AdapterLine,
     BpProcessed(<<"1", ",", "0", "0", "0">>), BpWritten(<<"8", "0", "0">>)}

\* the lines of the logs of SpecStats
StatLines ==
    {VersionLine, FormatLine(TRUE), FormatLine(FALSE),
     SampleLine("-"), SampleLine("a"), SampleLine("a.fq"),
     ReadsProcessed(<<"1", ",", "0", "0", "0">>), ReadsProcessed(<<",">>),
     ReadsWritten(<<"7">>),
     PairsProcessed(<<"5", "0">>), PairsWritten(<<"4", "0">>),
     ReadsWithAdapter(<<"3">>), Read1WithAdapter(<<"3">>),
     Read2WithAdapter(<<"4">>),
     BpProcessed(<<"1", ",", "0", "0", "0">>), BpProcessed(<<"0">>),
     BpWritten(<<"8", "0", "0">>), BpWritten(<<"0">>),
     QualityTrimmed(<<"5", "0">>)}

\* the lines of the logs of SpecHist: those the outer scan meets, those in
\* the place of the adapter's sequence line, and those the nested loop meets
HistLines ==
    {SampleLine("-"), ReadsProcessed(<<"9">>), ReadsWritten(<<"7">>),
     AdapterLine}
HistSequenceLines ==
    {SequenceLine("AGATC"), SequenceLine("TTAGG"), BlankLine}
HistNestedLines ==
    {OverviewLine, SeparatorLine,
     RowLine(<<"1", "0">>, <<"5", "0", "0">>, <<"4", "5", "0", ".", "2">>),
     RowLine(<<"1", "1">>, <<"1", ",", "2", "0", "0">>, <<".">>),
     FlushRowLine, SampleLine("-"), AdapterLine}

\* the lines of the one log of SpecRows, by the same three places
RowLines ==
    {VersionLine, SampleLine("a"), ReadsProcessed(<<"9">>),
     ReadsWritten(<<"7">>), AdapterLine}
RowSequenceLines ==
    {SequenceLine("AGATC"), BlankLine}
RowNestedLines ==
    {OverviewLine, SeparatorLine,
     RowLine(<<"1", "0">>, <<"5", "0", "0">>, <<"4", "5", "0", ".", "2">>),
     RowLine(<<"1", "1">>, <<"1", ",", "2", "0", "0">>, <<".">>),
     SampleLine("a"), AdapterLine}

-----------------------------------------------------------------------------
(* The program *)

\* the exceptions parse_atropos_logs can raise
ParseErrors == {"ValueError", "IndexError", "StopIteration", "KeyError",
                "ZeroDivisionError"}

\* (mutant) the call wrapped in try/except: the loop goes on
AfterParseErrorCaught == "files"

\* where an exception raised in parse_atropos_logs takes control: the call
\* is in no try statement, so the exception leaves __init__
AfterParseError == "raised"

\* (mutant) continue in the place of break: the sub-scan goes on
AfterBreakContinue == "nested"

\* where the break of line 175 takes control: the line that ended the
\* nested loop is dropped and the outer for statement reads the next one
AfterBreak == "outer"

\* (mutant) a comparison that never holds
NoDataNever(data) == Cardinality(DOMAIN data) < 0

\* the no-data test of __init__
NoData(data) == Cardinality(DOMAIN data) = 0

Init ==
    /\ atropos_data = EmptyDict
    /\ atropos_length_counts = EmptyDict
    /\ atropos_length_exp = EmptyDict
    /\ atropos_found_adapters = <<>>
    /\ data_sources = {}
    /\ report = <<>>
    /\ pc = "files"
    /\ exc = None
    /\ nfiles = 0
    /\ f = [s_name |-> None, root |-> None]
    /\ pos = 0
    /\ l = OtherLine
    /\ s_name = None
    /\ paired = "single"
    /\ skipped = 0
    /\ adapter_seq = None
    /\ at_header = FALSE
    /\ in_hist = FALSE
    /\ opened = EmptyDict
    /\ sample_ids = <<>>

module_state == <<atropos_data, atropos_length_counts, atropos_length_exp,
                  atropos_found_adapters, data_sources>>
nested_locals == <<skipped, adapter_seq, at_header, in_hist>>
histograms == <<atropos_length_counts, atropos_length_exp, atropos_found_adapters>>

\* history: the Sample ID lines the outer scan has processed
Announced(ln, file, ids) ==
    IF StartsWith(ln, "Sample ID: ") THEN Append(ids, SampleName(ln, file)) ELSE ids

\* __init__: the for statement hands parse_atropos_logs the next file
StartFile(maxFiles) ==
    /\ pc = "files"
    /\ nfiles < maxFiles
    /\ nfiles' = nfiles + 1
    /\ f' = FileAt(nfiles + 1)
    /\ pc' = "outer"
    /\ pos' = 0
    /\ s_name' = None
    /\ paired' = "single"
    /\ opened' = atropos_data
    /\ sample_ids' = <<>>
    /\ UNCHANGED <<module_state, report, exc, l, nested_locals>>

\* one pass of the body of the outer "for l in fh"
ReadOuter(ln, maxLines) ==
    /\ pc = "outer"
    /\ pos < maxLines
    /\ pos' = pos + 1
    /\ l' = ln
    /\ sample_ids' = Announced(ln, f, sample_ids)
    /\ paired' = ModeAfter(ln, paired)
    /\ s_name' = NameAfter(ln, f, s_name)
    /\ LET data1 == DataAfterSampleID(ln, f, atropos_data)
           name == NameAfter(ln, f, s_name)
           mode == ModeAfter(ln, paired)
       IN  IF name = None
           THEN /\ atropos_data' = data1
                /\ UNCHANGED <<data_sources, exc, skipped>>
                /\ pc' = "outer"
           ELSE /\ data_sources' = data_sources \cup {<<nfiles, name>>}
                /\ IF CaptureFails(ln, mode)
                   THEN /\ atropos_data' = data1
                        /\ pc' = AfterParseError
                        /\ exc' = "ValueError"
                        /\ UNCHANGED skipped
                   ELSE /\ atropos_data' =
                              Put(data1, name, Captured(data1[name], ln, mode))
                        /\ exc' = exc
                        /\ IF MatchAdapter(ln)
                           THEN pc' = "skip" /\ skipped' = 0
                           ELSE pc' = "outer" /\ UNCHANGED skipped
    /\ UNCHANGED <<histograms, report, nfiles, f, adapter_seq, at_header,
                   in_hist, opened>>

\* (mutant) a next(fh) too many: two lines go for one skip
ReadSkippedTwice(maxLines) ==
    /\ pc = "skip"
    /\ skipped < 4
    /\ pos + 1 < maxLines
    /\ pos' = pos + 2
    /\ skipped' = skipped + 1
    /\ UNCHANGED <<module_state, report, pc, exc, nfiles, f, l, s_name, paired,
                   adapter_seq, at_header, in_hist, opened, sample_ids>>

\* one of the four next(fh) after an Adapter marker
ReadSkipped(maxLines) ==
    /\ pc = "skip"
    /\ skipped < 4
    /\ pos < maxLines
    /\ pos' = pos + 1
    /\ skipped' = skipped + 1
    /\ UNCHANGED <<module_state, report, pc, exc, nfiles, f, l, s_name, paired,
                   adapter_seq, at_header, in_hist, opened, sample_ids>>

\* l = next(fh) and the set-up of the nested loop
ReadSequence(ln, maxLines) ==
    /\ pc = "skip"
    /\ skipped = 4
    /\ pos < maxLines
    /\ pos' = pos + 1
    /\ l' = ln
    /\ IF Split(ln) = <<>>
       THEN /\ pc' = AfterParseError
            /\ exc' = "IndexError"
            /\ UNCHANGED <<histograms, adapter_seq, at_header, in_hist>>
       ELSE /\ adapter_seq' = Split(ln)[1]
            /\ atropos_found_adapters' =
                   FoundAfter(atropos_found_adapters, Split(ln)[1])
            /\ atropos_length_counts' =
                   HistInit(atropos_length_counts, Split(ln)[1], s_name)
            /\ atropos_length_exp' =
                   HistInit(atropos_length_exp, Split(ln)[1], s_name)
            /\ at_header' = FALSE
            /\ in_hist' = FALSE
            /\ pc' = "nested"
            /\ exc' = exc
    /\ UNCHANGED <<atropos_data, data_sources, report, nfiles, f, s_name,
                   paired, skipped, opened, sample_ids>>

\* one pass of the body of the nested "for l in fh"
ReadNested(ln, maxLines) ==
    /\ pc = "nested"
    /\ pos < maxLines
    /\ pos' = pos + 1
    /\ l' = ln
    /\ IF in_hist
       THEN IF MatchRow(ln)
            THEN IF ~intOK(StripCommas(ln.cnt))
                 THEN /\ pc' = AfterParseError
                      /\ exc' = "ValueError"
                      /\ UNCHANGED <<atropos_length_counts, atropos_length_exp>>
                 ELSE /\ atropos_length_counts' =
                            HistPut(atropos_length_counts, adapter_seq, s_name,
                                    int(ln.len), int(StripCommas(ln.cnt)))
                      /\ IF ~floatOK(StripCommas(ln.exp))
                         THEN /\ pc' = AfterParseError
                              /\ exc' = "ValueError"
                              /\ UNCHANGED atropos_length_exp
                         ELSE /\ atropos_length_exp' =
                                    HistPut(atropos_length_exp, adapter_seq,
                                            s_name, int(ln.len),
                                            float(StripCommas(ln.exp)))
                              /\ UNCHANGED <<pc, exc>>
            ELSE /\ pc' = AfterBreak
                 /\ UNCHANGED <<atropos_length_counts, atropos_length_exp, exc>>
       ELSE UNCHANGED <<atropos_length_counts, atropos_length_exp, pc, exc>>
    /\ in_hist' = InHistAfter(ln, at_header, in_hist)
    /\ at_header' = AtHeaderAfter(ln, at_header, in_hist)
    /\ UNCHANGED <<atropos_data, atropos_found_adapters, data_sources, report,
                   nfiles, f, s_name, paired, skipped, adapter_seq, opened,
                   sample_ids>>

\* (mutant) the StopIteration caught: the scan ends as at a normal end of
\* file
EndOfFileInSkipQuiet ==
    /\ pc = "skip"
    /\ pc' = "outer"
    /\ UNCHANGED <<module_state, report, exc, nfiles, f, pos, l, s_name,
                   paired, nested_locals, opened, sample_ids>>

\* fh is exhausted under a next(fh): StopIteration leaves parse_atropos_logs
EndOfFileInSkip ==
    /\ pc = "skip"
    /\ pc' = AfterParseError
    /\ exc' = "StopIteration"
    /\ UNCHANGED <<module_state, report, nfiles, f, pos, l, s_name, paired,
                   nested_locals, opened, sample_ids>>

\* fh is exhausted under a for statement: both loops end and the
\* finalization loop runs over every record of self.atropos_data
EndOfFile ==
    /\ pc \in {"outer", "nested"}
    /\ LET bad == {s \in DOMAIN atropos_data : FailsOn(atropos_data[s])}
       IN  IF bad = {}
           THEN /\ atropos_data' = FinalizeAll(atropos_data)
                /\ pc' = "files"
                /\ exc' = exc
           ELSE \E b \in bad, done \in SUBSET ((DOMAIN atropos_data) \ bad) :
                /\ atropos_data' = FinalizePartly(atropos_data, b, done)
                /\ pc' = AfterParseError
                /\ exc' = FinalizeError(atropos_data[b])
    /\ UNCHANGED <<histograms, data_sources, report, nfiles, f, pos, l, s_name,
                   paired, nested_locals, opened, sample_ids>>

\* __init__ after the for statement: the ignore filter and the no-data test
EndOfFiles ==
    /\ pc = "files"
    /\ \E ignored \in IgnoreSets :
          /\ atropos_data' = ignore_samples(atropos_data, ignored)
          /\ IF NoData(ignore_samples(atropos_data, ignored))
             THEN pc' = "raised" /\ exc' = "UserWarning"
             ELSE pc' = "write_data_file" /\ exc' = exc
    /\ UNCHANGED <<histograms, data_sources, report, nfiles, f, pos, l, s_name,
                   paired, nested_locals, opened, sample_ids>>

\* one of the four calls that close __init__
Call(name, next) ==
    /\ pc = name
    /\ report' = Append(report, name)
    /\ pc' = next
    /\ UNCHANGED <<module_state, exc, nfiles, f, pos, l, s_name, paired,
                   nested_locals, opened, sample_ids>>

WriteDataFile == Call("write_data_file", "atropos_general_stats_table")
GeneralStatsTable == Call("atropos_general_stats_table", "atropos_length_trimmed_plot")
LengthTrimmedPlot == Call("atropos_length_trimmed_plot", "atropos_barplot")
BarPlot == Call("atropos_barplot", "done")

Reporting == WriteDataFile \/ GeneralStatsTable \/ LengthTrimmedPlot \/ BarPlot

\* Logs of at most MaxLines lines drawn from Lines, in up to MaxFiles files.
\* The nested loop needs a Sample ID line, an Adapter marker and five more
\* lines before it starts, so it is out of reach of these logs.
Next ==
    \/ StartFile(MaxFiles)
    \/ \E ln \in Lines : ReadOuter(ln, MaxLines)
    \/ ReadSkipped(MaxLines)
    \/ EndOfFileInSkip
    \/ EndOfFile
    \/ EndOfFiles
    \/ Reporting

Spec == Init /\ [][Next]_vars

\* One log of at most MaxStatLines lines drawn from StatLines.
NextStats ==
    \/ StartFile(1)
    \/ \E ln \in StatLines : ReadOuter(ln, MaxStatLines)
    \/ EndOfFile
    \/ EndOfFiles
    \/ Reporting

SpecStats == Init /\ [][NextStats]_vars

\* Logs of at most MaxHistLines lines drawn from HistLines, in up to
\* MaxFiles files.
NextHist ==
    \/ StartFile(MaxFiles)
    \/ \E ln \in HistLines : ReadOuter(ln, MaxHistLines)
    \/ ReadSkipped(MaxHistLines)
    \/ \E ln \in HistSequenceLines : ReadSequence(ln, MaxHistLines)
    \/ \E ln \in HistNestedLines : ReadNested(ln, MaxHistLines)
    \/ EndOfFileInSkip
    \/ EndOfFile
    \/ EndOfFiles
    \/ Reporting

SpecHist == Init /\ [][NextHist]_vars

\* One log of at most MaxRowLines lines: long enough for a histogram
\* sub-scan to end and a second one to start.
NextRows ==
    \/ StartFile(1)
    \/ \E ln \in RowLines : ReadOuter(ln, MaxRowLines)
    \/ ReadSkipped(MaxRowLines)
    \/ \E ln \in RowSequenceLines : ReadSequence(ln, MaxRowLines)
    \/ \E ln \in RowNestedLines : ReadNested(ln, MaxRowLines)
    \/ EndOfFileInSkip
    \/ EndOfFile
    \/ EndOfFiles
    \/ Reporting

SpecRows == Init /\ [][NextRows]_vars

\* The same log under the assumption that the interpreter goes on running
\* the program while it has a step to take.
SpecScan == SpecRows /\ WF_vars(NextRows)

-----------------------------------------------------------------------------
(* The claims *)

Range(seq) == {seq[i] : i \in 1..Len(seq)}
Distinct(seq) == \A i, j \in 1..Len(seq) : seq[i] = seq[j] => i = j
IsPrefix(s, t) == Len(s) <= Len(t) /\ SubSeq(t, 1, Len(s)) = s

\* a step of the outer scan, and the step that ends the file
OuterStep == pc = "outer" /\ pos' = pos + 1
EndOfFileStep == pc \in {"outer", "nested"} /\ pos' = pos /\ pc' # pc

\* a call of parse_atropos_logs has returned
ParseCompleted == pc = "files" /\ nfiles >= 1

\* every record holds r_processed, r_written and r_lost, their difference
RequiredKeys ==
    \A s \in DOMAIN atropos_data :
        /\ {"r_processed", "r_written", "r_lost"} \subseteq DOMAIN atropos_data[s]
        /\ atropos_data[s]["r_lost"] =
               atropos_data[s]["r_processed"] - atropos_data[s]["r_written"]

C2_DuplicateOverwrites ==
    [][/\ (OuterStep /\ StartsWith(l', "Sample ID: ")
             /\ s_name' \in Range(sample_ids))
          => (/\ Has(atropos_data', s_name')
              /\ DOMAIN atropos_data'[s_name'] \subseteq Hits(l', paired')
              /\ exc' = None)
       /\ (OuterStep /\ ~StartsWith(l', "Sample ID: "))
          => \A s \in DOMAIN atropos_data' :
                /\ Has(atropos_data, s)
                /\ DOMAIN atropos_data'[s] \subseteq
                       (DOMAIN atropos_data[s]) \cup Hits(l', paired')
       /\ EndOfFileStep
          => \A s \in DOMAIN atropos_data' :
                /\ Has(atropos_data, s)
                /\ DOMAIN atropos_data'[s] \subseteq
                       (DOMAIN atropos_data[s]) \cup {"r_lost", "percent_trimmed"}
                /\ \A k \in (DOMAIN atropos_data[s]) \ {"r_lost", "percent_trimmed"} :
                       atropos_data'[s][k] = atropos_data[s][k]
      ]_vars

C2_Witness ==
    /\ pc = "outer"
    /\ pos = 3
    /\ Len(sample_ids) = 2
    /\ sample_ids[1] = sample_ids[2]
    /\ StartsWith(l, "Sample ID: ")
    /\ atropos_data[s_name] = EmptyDict

\* C3: the discovered-adapter list never holds a duplicate, only grows at
\* its end, grows only by the adapter just read when that adapter is new,
\* and holds every adapter whose block has been entered.
C3_FoundAdaptersOrdered ==
    [][/\ Distinct(atropos_found_adapters')
       /\ IsPrefix(atropos_found_adapters, atropos_found_adapters')
       /\ atropos_found_adapters' # atropos_found_adapters
          => (/\ atropos_found_adapters' =
                     Append(atropos_found_adapters, adapter_seq')
              /\ adapter_seq' \notin Range(atropos_found_adapters))
       /\ (pc = "skip" /\ pc' = "nested")
          => adapter_seq' \in Range(atropos_found_adapters')
      ]_vars

\* an adapter seen under a sample of the first file recurs under another
\* sample of the second
C3_Witness ==
    /\ nfiles = 2
    /\ pc = "nested"
    /\ atropos_found_adapters = <<"AGATC">>
    /\ Cardinality(DOMAIN atropos_length_counts["AGATC"]) = 2

\* C4 as stated: each 'Input format: ' line the outer scan processes sets
\* the mode to the one the line names, paired or single.
C4_ModeFollowsMarker ==
    [][(OuterStep /\ StartsWith(l', "Input format: "))
       => paired' = IF ContainsPaired(l') THEN "paired" ELSE "single"]_vars

\* the labels the claim C5 names for the paired keys
PairedLabel ==
    [r_processed      |-> "Total read pairs processed:",
     r_written        |-> "Pairs written (passing filters):",
     r1_with_adapters |-> "Read 1 with adapter:",
     r2_with_adapters |-> "Read 2 with adapter:"]

\* C5: while the mode is paired, a line of the outer scan never gives a
\* record r_with_adapters; it sets r_processed, r_written, r1_with_adapters
\* or r2_with_adapters only from the 'Total read pairs processed', 'Pairs
\* written', 'Read 1 with adapter' or 'Read 2 with adapter' line, and such a
\* line does set that key of the current sample.
C5_PairedKeys ==
    [][(OuterStep /\ paired' = "paired")
       => /\ \A s \in DOMAIN atropos_data' : \A k \in DOMAIN atropos_data'[s] :
                 ~(/\ Has(atropos_data, s)
                   /\ Has(atropos_data[s], k)
                   /\ atropos_data[s][k] = atropos_data'[s][k])
                 => (/\ k # "r_with_adapters"
                     /\ k \in DOMAIN PairedLabel
                        => (/\ Match(PairedLabel[k], l')
                            /\ atropos_data'[s][k] = int(StripCommas(l'.cap))))
          /\ \A k \in DOMAIN PairedLabel :
                 (Match(PairedLabel[k], l') /\ s_name' # None /\ pc' # "raised")
                 => (/\ Has(atropos_data'[s_name'], k)
                     /\ atropos_data'[s_name'][k] = int(StripCommas(l'.cap)))
      ]_vars

C5_Witness ==
    /\ paired = "paired"
    /\ s_name # None
    /\ Has(atropos_data[s_name], "r1_with_adapters")
    /\ Has(atropos_data[s_name], "r_processed")
    /\ ~Has(atropos_data[s_name], "r_with_adapters")

\* C6 as stated: after finalization a record with bp_processed (not 0), without
\* bp_written and with bp_trimmed or quality_trimmed has percent_trimmed =
\* 100 * (bp_trimmed + quality_trimmed) / bp_processed, a missing addend
\* counting as zero.
C6_PercentFromTrimmed ==
    ParseCompleted =>
        \A s \in DOMAIN atropos_data :
            LET d == atropos_data[s]
            IN  (/\ Has(d, "bp_processed")
                 /\ d["bp_processed"] # 0
                 /\ ~Has(d, "bp_written")
                 /\ Has(d, "bp_trimmed") \/ Has(d, "quality_trimmed"))
                => (/\ Has(d, "percent_trimmed")
                    /\ d["percent_trimmed"] =
                           Float(100 * (Get(d, "bp_trimmed", 0)
                                        + Get(d, "quality_trimmed", 0)),
                                 d["bp_processed"]))

\* the parse of the current file has ended in a fatal error
ParseFailed == pc = "raised" /\ exc \in ParseErrors

\* C7 as stated: when the parse of a file ends in a fatal error, every
\* record of the files processed before is what it was when the failing
\* file was opened.
C7_Original ==
    ParseFailed =>
        \A s \in DOMAIN opened :
            Has(atropos_data, s) /\ atropos_data[s] = opened[s]

\* C7 amended: ... every record of the files processed before whose name is
\* not the name of a Sample ID line that the outer scan processed in the
\* failing file is what it was when the failing file was opened.
C7_Amended ==
    ParseFailed =>
        \A s \in (DOMAIN opened) \ Range(sample_ids) :
            Has(atropos_data, s) /\ atropos_data[s] = opened[s]

C7_Witness ==
    /\ ParseFailed
    /\ nfiles = 2
    /\ sample_ids # <<>>
    /\ (DOMAIN opened) \ Range(sample_ids) # {}

\* C8 as stated: a fatal failure of the parse of one file does not abort the
\* run (the loop over the discovered files goes on).
C8_Original == exc \in ParseErrors => pc # "raised"

\* C8 amended: a fatal failure of the parse of one file leaves __init__: no
\* step follows it, so no further file is parsed and no reporting call is
\* made.
C8_Amended ==
    [][/\ exc \notin ParseErrors
       /\ exc' \in ParseErrors
          => (pc' = "raised" /\ report' = <<>> /\ nfiles' = nfiles)
      ]_vars

C8_Witness == exc = "KeyError" /\ pc = "raised" /\ nfiles = 1 /\ nfiles < MaxFiles

\* the order of the calls that close __init__
ReportOrder == <<"write_data_file", "atropos_general_stats_table",
                 "atropos_length_trimmed_plot", "atropos_barplot">>

\* C9: UserWarning is raised only with an empty filtered mapping and with no
\* reporting call made; the reporting calls are reached only with a
\* non-empty filtered mapping and without the signal, and are made in the
\* order write_data_file, general stats table, length plot, bar plot.
C9_NoDataSignal ==
    /\ exc = "UserWarning"
       => (pc = "raised" /\ DOMAIN atropos_data = {} /\ report = <<>>)
    /\ pc \in Range(ReportOrder) \cup {"done"}
       => (/\ exc = None
           /\ DOMAIN atropos_data # {}
           /\ IsPrefix(report, ReportOrder)
           /\ pc = IF Len(report) < Len(ReportOrder)
                   THEN ReportOrder[Len(report) + 1] ELSE "done")
    /\ report # <<>> => pc \in Range(ReportOrder) \cup {"done"}

\* every sample that was parsed is ignored, and the signal is raised
C9_Witness == exc = "UserWarning" /\ data_sources # {}

\* C10: a Sample ID line of the outer scan makes the current sample the
\* fallback name f['s_name'], unsanitized, when its last token is '-', and
\* the sanitizer's result for the token and f['root'] otherwise, and a
\* record of that name exists; every line of the outer scan stores what it
\* captures in the record of the current sample and changes no other
\* record; a line that is neither a Sample ID line nor a version line keeps
\* the current sample.
C10_SampleKey ==
    [][OuterStep
       => /\ StartsWith(l', "Sample ID: ")
             => (/\ s_name' = IF Split(l')[Len(Split(l'))] = "-"
                              THEN f.s_name
                              ELSE clean_s_name(Split(l')[Len(Split(l'))], f.root)
                 /\ Has(atropos_data', s_name'))
          /\ (s_name' # None /\ pc' # "raised")
             => \A k \in Hits(l', paired') :
                    /\ Has(atropos_data'[s_name'], k)
                    /\ atropos_data'[s_name'][k] = int(StripCommas(l'.cap))
          /\ \A s \in (DOMAIN atropos_data) \ {s_name'} :
                 Has(atropos_data', s) /\ atropos_data'[s] = atropos_data[s]
          /\ (~StartsWith(l', "Sample ID: ") /\ ~HasVersion(l'))
             => s_name' = s_name
      ]_vars

\* the fallback name, which the sanitizer would change, keys a record that
\* has received a capture
C10_Witness ==
    /\ s_name = "in.fq"
    /\ clean_s_name("in.fq", f.root) # "in.fq"
    /\ Has(atropos_data, "in.fq")
    /\ Has(atropos_data["in.fq"], "r_processed")

\* a line read by the nested loop
NestedStep == pc = "nested" /\ pos' = pos + 1

\* C11: in histogram-row mode the first line the nested loop reads that is
\* not a histogram row ends the sub-scan and is consumed there: control
\* returns to the outer scan with no record made or changed, no histogram
\* touched, no sub-scan started, no attribution made and the current sample, the
\* mode and the adapter as they were, whatever marker the line carries.
C11_BreakLineConsumed ==
    [][(NestedStep /\ in_hist /\ ~MatchRow(l'))
       => /\ pc' = "outer"
          /\ UNCHANGED <<atropos_data, histograms, data_sources, s_name,
                         paired, adapter_seq, sample_ids, exc>>
      ]_vars

\* a Sample ID line has ended the sub-scan: the record of the sample still
\* holds its capture and no second name was announced
C11_Witness ==
    /\ pc = "outer"
    /\ in_hist
    /\ StartsWith(l, "Sample ID: ")
    /\ Len(sample_ids) = 1
    /\ s_name # None
    /\ Has(atropos_data[s_name], "r_processed")

\* the histograms of the current (adapter, sample)
Counts == atropos_length_counts[adapter_seq][s_name]
Exp == atropos_length_exp[adapter_seq][s_name]

\* what C12 and its amendment share: a line of the nested loop changes a
\* histogram only in histogram-row mode and only if it is a row; that mode
\* is entered only by a '---' line met after the Overview line, and the
\* Overview line is what sets at_header
C12_RowModeOnly ==
    NestedStep
    => /\ (atropos_length_counts' # atropos_length_counts
              \/ atropos_length_exp' # atropos_length_exp)
          => (in_hist /\ MatchRow(l'))
       /\ (in_hist' /\ ~in_hist) => (at_header /\ l'.prefix = "---")
       /\ (at_header' /\ ~at_header)
          => l'.prefix = "Overview of removed sequences:"

\* C12 as stated: ... and every row recorded (a row met in histogram-row
\* mode whose count converts) puts its length key in both histograms of the
\* current (adapter, sample).
C12_Original ==
    [][/\ C12_RowModeOnly
       /\ (NestedStep /\ in_hist /\ MatchRow(l') /\ intOK(StripCommas(l'.cnt)))
          => (/\ Has(Counts', int(l'.len))
              /\ Has(Exp', int(l'.len)))
      ]_vars

\* C12 amended: ... and every row met in histogram-row mode whose count
\* converts puts its length key in the count histogram; it puts the same key
\* in the expected-count histogram when its expected count converts too, and
\* otherwise leaves that histogram as it was and ends the parse in
\* ValueError.
C12_Amended ==
    [][/\ C12_RowModeOnly
       /\ (NestedStep /\ in_hist /\ MatchRow(l') /\ intOK(StripCommas(l'.cnt)))
          => (/\ Has(Counts', int(l'.len))
              /\ Counts'[int(l'.len)] = int(StripCommas(l'.cnt))
              /\ IF floatOK(StripCommas(l'.exp))
                 THEN /\ Has(Exp', int(l'.len))
                      /\ Exp'[int(l'.len)] = float(StripCommas(l'.exp))
                      /\ pc' = "nested"
                 ELSE /\ atropos_length_exp' = atropos_length_exp
                      /\ pc' = "raised"
                      /\ exc' = "ValueError")
      ]_vars

\* a row between the Overview line and the separator has been read and is
\* not recorded
C12_Witness ==
    /\ pc = "nested"
    /\ at_header
    /\ ~in_hist
    /\ MatchRow(l)
    /\ Counts = EmptyDict
    /\ Exp = EmptyDict

\* C13: a line of the outer scan that holds the version marker (and is no
\* Sample ID line) leaves no current sample; a line of the outer scan that
\* leaves no current sample - the version line and every line after it up to
\* the next Sample ID line - changes no record, no histogram and not the
\* discovered-adapter list, makes no attribution, starts no sub-scan and
\* raises nothing, whatever regex or marker it matches.
C13_VersionResetsSample ==
    [][OuterStep
       => /\ (HasVersion(l') /\ ~StartsWith(l', "Sample ID: "))
             => s_name' = None
          /\ s_name' = None
             => (/\ UNCHANGED <<atropos_data, histograms, data_sources, exc>>
                 /\ pc' = "outer")
      ]_vars

\* after a sample and then a version line, an Adapter marker has been read
\* and has started nothing
C13_Witness ==
    /\ pc = "outer"
    /\ s_name = None
    /\ sample_ids # <<>>
    /\ MatchAdapter(l)

\* C14 as stated: a line of the outer scan that holds the version marker
\* puts the mode back to single and leaves no current sample; a Sample ID
\* line leaves the mode as it was.
C14_VersionResetsMode ==
    [][OuterStep
       => /\ HasVersion(l') => (paired' = "single" /\ s_name' = None)
          /\ StartsWith(l', "Sample ID: ") => paired' = paired
      ]_vars

\* the finalization loop of the current file has raised
FinalizationFailed == pc = "raised" /\ exc \in {"KeyError", "ZeroDivisionError"}

\* C15 as stated: finalization fails only if some record lacks r_processed
\* or r_written, and completes only if none does; after it every record has
\* r_lost, has percent_trimmed = 100 * (bp_processed - bp_written) /
\* bp_processed when it has bp_processed and bp_written, and has no
\* percent_trimmed when it has neither that pair nor bp_processed with
\* bp_trimmed.
C15_FailsOnlyOnMissing ==
    /\ FinalizationFailed
       => \E s \in DOMAIN atropos_data : MissingRequired(atropos_data[s])
    /\ ParseCompleted
       => \A s \in DOMAIN atropos_data :
            LET d == atropos_data[s]
            IN  /\ ~MissingRequired(d)
                /\ Has(d, "r_lost")
                /\ d["r_lost"] = d["r_processed"] - d["r_written"]
                /\ FirstBranch(d)
                   => (/\ Has(d, "percent_trimmed")
                       /\ d["percent_trimmed"] =
                              Float(100 * (d["bp_processed"] - d["bp_written"]),
                                    d["bp_processed"]))
                /\ (~FirstBranch(d) /\ ~SecondBranch(d))
                   => ~Has(d, "percent_trimmed")

\* a line read under one of the next(fh) calls
SkipStep == pc = "skip" /\ pos' = pos + 1

\* C16: an Adapter marker met by the outer scan while a sample is current
\* starts the skip; each of the next four lines is read and dropped, with
\* nothing of the program's data, the current sample, the mode or l changed;
\* the fifth line either has no token, and the parse ends in IndexError with
\* the data as it was, or gives adapter_seq its first token and leaves both
\* histograms of (adapter_seq, s_name) empty; the end of the input under any
\* of the five reads ends the parse in StopIteration.
C16_AdapterBlock ==
    [][/\ (OuterStep /\ s_name' # None /\ MatchAdapter(l') /\ pc' # "raised")
          => (pc' = "skip" /\ skipped' = 0)
       /\ (SkipStep /\ skipped < 4)
          => (/\ UNCHANGED <<module_state, s_name, paired, l, sample_ids, exc>>
              /\ pc' = "skip"
              /\ skipped' = skipped + 1)
       /\ (SkipStep /\ skipped = 4)
          => IF Split(l') = <<>>
             THEN /\ pc' = "raised"
                  /\ exc' = "IndexError"
                  /\ UNCHANGED module_state
             ELSE /\ adapter_seq' = Split(l')[1]
                  /\ Counts' = EmptyDict
                  /\ Exp' = EmptyDict
                  /\ s_name' = s_name
                  /\ pc' = "nested"
                  /\ exc' = exc
       /\ (pc = "skip" /\ pos' = pos)
          => (pc' = "raised" /\ exc' = "StopIteration")
      ]_vars

\* the fifth line has just named the adapter
C16_Witness ==
    /\ pc = "nested"
    /\ skipped = 4
    /\ ~at_header
    /\ Split(l) # <<>>
    /\ adapter_seq = Split(l)[1]
    /\ adapter_seq = "AGATC"
    /\ Counts = EmptyDict
    /\ Exp = EmptyDict

\* C17: after a completed parse of a file none of whose Sample ID lines
\* names a record the mapping held when the file was opened, every such
\* record is, key for key and value for value, what it was then (the
\* finalization loop has run over it again and changed nothing).
C17_EarlierRecordsKept ==
    (/\ ParseCompleted
     /\ Range(sample_ids) \cap DOMAIN opened = {})
    => \A s \in DOMAIN opened :
           Has(atropos_data, s) /\ atropos_data[s] = opened[s]

\* a second file with a sample of its own has been parsed over a record of
\* the first file that carries both derived keys
C17_Witness ==
    /\ ParseCompleted
    /\ nfiles = 2
    /\ sample_ids # <<>>
    /\ Range(sample_ids) \cap DOMAIN opened = {}
    /\ \E s \in DOMAIN opened :
           {"r_lost", "percent_trimmed"} \subseteq DOMAIN opened[s]

\* files are being parsed, or the parse of one has failed
Parsing == pc \in {"files", "outer", "skip", "nested"} \/ ParseFailed

\* the discovery list and the two histograms have the same adapters, the
\* histograms of an adapter have the same samples, and every such sample
\* has a record
AdaptersAndSamplesAgree ==
    /\ Range(atropos_found_adapters) = DOMAIN atropos_length_counts
    /\ DOMAIN atropos_length_exp = DOMAIN atropos_length_counts
    /\ \A a \in DOMAIN atropos_length_counts :
          /\ DOMAIN atropos_length_exp[a] = DOMAIN atropos_length_counts[a]
          /\ DOMAIN atropos_length_counts[a] \subseteq DOMAIN atropos_data

\* the two histograms of (a, s) have the same length keys
LengthsAgree(a, s) ==
    DOMAIN atropos_length_exp[a][s] = DOMAIN atropos_length_counts[a][s]

\* C18 as stated: while files are parsed, and after a parse has failed, the
\* three structures agree on adapters, samples and length keys, and every
\* sample of a histogram has a record.
C18_Original ==
    Parsing
    => /\ AdaptersAndSamplesAgree
       /\ \A a \in DOMAIN atropos_length_counts :
             \A s \in DOMAIN atropos_length_counts[a] : LengthsAgree(a, s)

\* C18 amended: ... agree on adapters and samples, every sample of a
\* histogram has a record, and the two histograms of a pair have the same
\* length keys, except that after a parse has ended in ValueError the count
\* histogram of the pair being scanned may hold one length key that the
\* expected-count histogram lacks.
C18_Amended ==
    Parsing
    => /\ AdaptersAndSamplesAgree
       /\ \A a \in DOMAIN atropos_length_counts :
             \A s \in DOMAIN atropos_length_counts[a] :
                \/ LengthsAgree(a, s)
                \/ /\ pc = "raised"
                   /\ exc = "ValueError"
                   /\ a = adapter_seq
                   /\ s = s_name
                   /\ DOMAIN atropos_length_exp[a][s]
                          \subseteq DOMAIN atropos_length_counts[a][s]
                   /\ Cardinality(DOMAIN atropos_length_counts[a][s]
                                    \ DOMAIN atropos_length_exp[a][s]) = 1

\* a row is on record for a sample of the second file
C18_Witness ==
    /\ nfiles = 2
    /\ pc = "nested"
    /\ Counts # EmptyDict
    /\ Exp # EmptyDict

\* a step keeps, in both histograms, the entry of every (adapter, sample)
\* other than the pair (adapter_seq', s_name')
OtherPairsKept ==
    \A a \in DOMAIN atropos_length_counts :
       \A s \in DOMAIN atropos_length_counts[a] :
          (a # adapter_seq' \/ s # s_name')
          => (/\ Has(atropos_length_counts', a)
              /\ Has(atropos_length_counts'[a], s)
              /\ atropos_length_counts'[a][s] = atropos_length_counts[a][s]
              /\ Has(atropos_length_exp', a)
              /\ Has(atropos_length_exp'[a], s)
              /\ atropos_length_exp'[a][s] = atropos_length_exp[a][s])

\* a step keeps, in both histograms of the current pair, every length key
\* other than k
OtherLengthsKept(k) ==
    /\ \A j \in (DOMAIN Counts) \ {k} : Has(Counts', j) /\ Counts'[j] = Counts[j]
    /\ \A j \in (DOMAIN Exp) \ {k} : Has(Exp', j) /\ Exp'[j] = Exp[j]
    /\ DOMAIN Counts' \subseteq (DOMAIN Counts) \cup {k}
    /\ DOMAIN Exp' \subseteq (DOMAIN Exp) \cup {k}

\* C19: the entry of a sub-scan empties both histograms of its pair and
\* keeps every other pair; a line of the sub-scan keeps every other pair and,
\* in its own pair, every length but the one of the row it records; a line
\* of the outer scan - a Sample ID line that starts a record under a name
\* already in use included - and the end of the file change no histogram.
C19_HistogramOfLastSubScan ==
    [][/\ (SkipStep /\ skipped = 4 /\ pc' = "nested")
          => (/\ Counts' = EmptyDict
              /\ Exp' = EmptyDict
              /\ OtherPairsKept)
       /\ NestedStep
          => (/\ OtherPairsKept
              /\ UNCHANGED <<adapter_seq, s_name>>
              /\ IF in_hist /\ MatchRow(l')
                 THEN OtherLengthsKept(int(l'.len))
                 ELSE UNCHANGED <<atropos_length_counts, atropos_length_exp>>)
       /\ (OuterStep \/ EndOfFileStep)
          => UNCHANGED <<atropos_length_counts, atropos_length_exp>>
      ]_vars

\* a second Sample ID line of the same name has emptied the record, and the
\* rows of the first block are still in the histogram
C19_Witness ==
    /\ pc = "outer"
    /\ StartsWith(l, "Sample ID: ")
    /\ Len(sample_ids) = 2
    /\ sample_ids[1] = sample_ids[2]
    /\ atropos_data[s_name] = EmptyDict
    /\ adapter_seq # None
    /\ Counts # EmptyDict

\* parse_atropos_logs is reading fh
Scanning == pc \in {"outer", "skip", "nested"}

\* C20: a step of the scan moves the cursor by exactly one line, and the
\* line goes to the one consumer the scan is in (the outer scan, the skip
\* or fifth read after an Adapter marker, the nested sub-scan); no other
\* step moves the cursor within a file; when the input ends under the
\* nested sub-scan the scan ends without StopIteration and finalization
\* does what it does for the records at hand, failing only on a record it
\* fails on at any end of file; and every scan that has started ends.
C20_ScanTerminates ==
    /\ [][/\ pos' # pos
             => \/ (Scanning /\ pos' = pos + 1 /\ nfiles' = nfiles)
                \/ (pc = "files" /\ pc' = "outer" /\ pos' = 0
                      /\ nfiles' = nfiles + 1)
          /\ (Scanning /\ pos' = pos + 1)
             => \/ (OuterStep /\ ~SkipStep /\ ~NestedStep)
                \/ (SkipStep /\ ~OuterStep /\ ~NestedStep)
                \/ (NestedStep /\ ~OuterStep /\ ~SkipStep)
          /\ (pc = "nested" /\ EndOfFileStep)
             => (/\ exc' # "StopIteration"
                 /\ IF \E s \in DOMAIN atropos_data : FailsOn(atropos_data[s])
                    THEN pc' = "raised"
                           /\ exc' \in {"KeyError", "ZeroDivisionError"}
                    ELSE pc' = "files" /\ exc' = exc
                           /\ atropos_data' = FinalizeAll(atropos_data))
         ]_vars
    /\ (Scanning ~> ~Scanning)

\* the input ended while the sub-scan waited for the Overview line, and the
\* file was finalized without error
C20_Witness ==
    /\ ParseCompleted
    /\ exc = None
    /\ atropos_found_adapters # <<>>
    /\ ~at_header
    /\ ~in_hist
    /\ \A s \in DOMAIN atropos_data : Has(atropos_data[s], "r_lost")

====
